---- MODULE Spec2Model ----
(***************************************************************************)
(* Model of aarch64-cpu-ext: the translation table entry codec             *)
(* (structures/tte.rs), the TLB invalidation operand encoder (asm/tlb.rs)  *)
(* and the cache maintenance engine (cache.rs).                            *)
(*                                                                         *)
(* Machine words are modelled as the set of their set bit positions, so a  *)
(* u64 is a subset of 0..63 and a u32 a subset of 0..31.  Bitwise and is   *)
(* intersection, bitwise or is union, shifts move the positions and drop   *)
(* what leaves the word, exactly as the Rust operators do.                 *)
(***************************************************************************)
EXTENDS Integers, Sequences, FiniteSets, TLC

(***************************************************************************)
(* Machine words                                                           *)
(***************************************************************************)
U64 == 0..63
U32 == 0..31

\* (1 << n) - 1
MaskLow(n) == 0..(n - 1)

\* x << k in a word whose bit positions are W (bits shifted out are lost)
Shl(x, k, W) == {i + k : i \in x} \cap W

\* x >> k (logical)
Shr(x, k) == {i - k : i \in {j \in x : j >= k}}

\* the word holding the small natural n
ToBits(n) == {i \in 0..30 : (n \div (2 ^ i)) % 2 = 1}

\* a < b for two words
Lt(a, b) == {i \in b \ a : \A j \in a \ b : j < i} # {}

\* !x in a u64
Not(x) == U64 \ x

\* the sum of the bits i and up of a and b with carry c in; position 64 is
\* the carry out of a u64
RECURSIVE AddFrom(_, _, _, _)
AddFrom(a, b, i, c) ==
    IF i > 63 THEN (IF c = 1 THEN {64} ELSE {})
    ELSE LET t == (IF i \in a THEN 1 ELSE 0) + (IF i \in b THEN 1 ELSE 0) + c
         IN (IF t % 2 = 1 THEN {i} ELSE {}) \cup AddFrom(a, b, i + 1, t \div 2)

\* x - 1 for x > 0
Sub1(x) == AddFrom(x, U64, 0, 0) \ {64}

\* the number of bits n needs: 32 - n.leading_zeros() for a u32
RECURSIVE BitLen(_)
BitLen(n) == IF n = 0 THEN 0 ELSE 1 + BitLen(n \div 2)

\* the result of a call that may panic
Ok(v) == [panic |-> FALSE, val |-> v]
Panic == [panic |-> TRUE, val |-> {}]

\* a + b on usize: with overflow checks (a debug build) an overflow panics,
\* without them (a release build) it wraps
usize_add(a, b, checks) ==
    LET t == AddFrom(a, b, 0, 0)
    IN IF 64 \in t /\ checks THEN Panic ELSE Ok(t \ {64})

\* x << k on u32: a shift by the width or more panics with overflow checks
\* and is taken modulo the width without them
u32_shl(x, k, checks) ==
    IF k >= 32 THEN (IF checks THEN Panic ELSE Ok(Shl(x, k % 32, U32)))
    ELSE Ok(Shl(x, k, U32))

(***************************************************************************)
(* tock_registers fields: a field is an offset and a width; a field value  *)
(* is a mask and a value already shifted into place.                       *)
(***************************************************************************)
Field(offset, numbits) == [numbits |-> numbits, shift |-> offset]

FieldMask(f) == Shl(MaskLow(f.numbits), f.shift, U64)

\* FIELD.val(v): the value is masked to the field width, then shifted
FieldVal(f, v) ==
    [mask |-> FieldMask(f), value |-> Shl(v \cap MaskLow(f.numbits), f.shift, U64)]

\* FieldValue + FieldValue
FvAdd(a, b) == [mask |-> a.mask \cup b.mask, value |-> a.value \cup b.value]

\* reg.modify(fv)
Modify(r, fv) == (r \ fv.mask) \cup fv.value

\* reg.is_set(FIELD)
IsSet(r, f) == (r \cap FieldMask(f)) # {}

\* reg.read(FIELD)
ReadField(r, f) == Shr(r \cap FieldMask(f), f.shift)

(***************************************************************************)
(* structures/tte.rs                                                       *)
(***************************************************************************)
Granules == {12, 14, 16}
OAs == {48, 52}

\* Granule::MASK
GranuleMASK(m) == MaskLow(m)

VALID == Field(0, 1)
TYPE == Field(1, 1)
ATTR_INDX == Field(2, 3)
NS == Field(5, 1)
AP == Field(6, 2)
SH == Field(8, 2)
AF == Field(10, 1)
NG == Field(11, 1)
ADDR == Field(12, 38)
DBM == Field(51, 1)
CONTIG == Field(52, 1)
PXN == Field(53, 1)
XN_UXN == Field(54, 1)
SW_RESERVED == Field(55, 4)


TTE64_new(value) == value

invalid == TTE64_new({})

is_valid(r) == IsSet(r, VALID)

set_is_valid(r, val) ==
    IF val THEN Modify(r, FieldVal(VALID, ToBits(1)))
    ELSE Modify(r, FieldVal(VALID, ToBits(0)))

is_table(r) == is_valid(r) /\ IsSet(r, TYPE)

is_block(r) == is_valid(r) /\ ~IsSet(r, TYPE)

\* the two assertions, then ADDR.val(addr >> ADDR.shift)
set_address(m, bits, r, addr) ==
    IF (addr \cap GranuleMASK(m)) # {} THEN Panic
    ELSE IF ~Lt(addr, {bits}) THEN Panic
    ELSE Ok(Modify(r, FieldVal(ADDR, Shr(addr, ADDR.shift))))

new_table(m, bits, table_addr) ==
    LET tte == Modify(TTE64_new({}),
                      FvAdd(FvAdd(FieldVal(VALID, ToBits(1)), FieldVal(TYPE, ToBits(1))),
                            FieldVal(AF, ToBits(1))))
    IN set_address(m, bits, tte, table_addr)

new_block(m, bits, block_addr) ==
    LET tte == Modify(TTE64_new({}),
                      FvAdd(FvAdd(FieldVal(VALID, ToBits(1)), FieldVal(TYPE, ToBits(0))),
                            FieldVal(AF, ToBits(1))))
    IN set_address(m, bits, tte, block_addr)

\* the top bit of the address mask
bit_end(m, bits) == IF bits = 52 /\ (m = 12 \/ m = 14) THEN 50 ELSE 48

\* address without the validity check
address_any(m, bits, r) ==
    LET bit_start == m
        mask == Shl(MaskLow(bit_end(m, bits) - bit_start + 1), bit_start, U64)
    IN r \cap mask

address(m, bits, r) ==
    IF ~is_valid(r) THEN {}
    ELSE LET bit_start == m
             mask == Shl(MaskLow(bit_end(m, bits) - bit_start + 1), bit_start, U64)
         IN r \cap mask

\* the match of address_with_page_level: 0 stands for the panicking arm
page_level_shift(m, level) ==
    CASE m = 12 /\ level = 0 -> 39
      [] m = 12 /\ level = 1 -> 30
      [] m = 12 /\ level = 2 -> 21
      [] m = 14 /\ level = 1 -> 36
      [] m = 14 /\ level = 2 -> 25
      [] m = 16 /\ level = 1 -> 42
      [] m = 16 /\ level = 2 -> 29
      [] OTHER -> 0

address_with_page_level(m, bits, r, level) ==
    IF is_table(r) THEN Ok(address(m, bits, r))
    ELSE LET n == page_level_shift(m, level)
         IN IF n = 0 THEN Panic
            ELSE LET bit_start == n
                     mask == Shl(MaskLow(bit_end(m, bits) - bit_start + 1), bit_start, U64)
                 IN Ok(r \cap mask)

\* a bool as the word it converts to
BoolWord(b) == IF b THEN ToBits(1) ELSE ToBits(0)

is_accessed(r) == IsSet(r, AF)

attr_index(r) == ReadField(r, ATTR_INDX)

is_executable(r) == ~IsSet(r, XN_UXN)

is_privileged_executable(r) == ~IsSet(r, PXN)

\* AccessPermission::from_bits: every value of bits & 0b11 has an arm
from_bits(bits) ==
    LET b == bits \cap ToBits(3)
    IN IF b \in {ToBits(0), ToBits(1), ToBits(2), ToBits(3)} THEN Ok(b) ELSE Panic

\* from_bits(self.reg.read(AP) as u8).unwrap()
access_permission(r) == from_bits(ReadField(r, AP) \cap MaskLow(8))

\* enum Shareability, each variant with its discriminant
Shareability == {"NonShareable", "OuterShareable", "InnerShareable"}

ShareabilityTag(s) ==
    CASE s = "NonShareable" -> ToBits(0)
      [] s = "OuterShareable" -> ToBits(1)
      [] s = "InnerShareable" -> ToBits(2)

\* TTE64_REG::SH: the field value of each variant
SHValue(s) ==
    CASE s = "NonShareable" -> ToBits(0)
      [] s = "OuterShareable" -> ToBits(2)
      [] s = "InnerShareable" -> ToBits(3)

\* read_as_enum(SH) has no variant for 0b01: the None arm is unreachable!()
shareability(r) ==
    LET v == ReadField(r, SH)
    IN IF \E s \in Shareability : SHValue(s) = v
       THEN Ok(ShareabilityTag(CHOOSE s \in Shareability : SHValue(s) = v))
       ELSE Panic

set_shareability(r, s) == Modify(r, FieldVal(SH, SHValue(s)))

set_access(r) == Modify(r, FieldVal(AF, ToBits(1)))

clear_access(r) == Modify(r, FieldVal(AF, ToBits(0)))

is_contiguous(r) == IsSet(r, CONTIG)

set_contiguous(r) == Modify(r, FieldVal(CONTIG, ToBits(1)))

is_global(r) == ~IsSet(r, NG)

set_not_global(r) == Modify(r, FieldVal(NG, ToBits(1)))

is_dirty_writable(r) == IsSet(r, DBM)

sw_reserved(r) == ReadField(r, SW_RESERVED)

\* SW_RESERVED.val(value & 0xF)
set_sw_reserved(r, value) == Modify(r, FieldVal(SW_RESERVED, value \cap ToBits(15)))

\* calculate_index with the 16K level-1 mask one bit too wide
calculate_index_wide(m, va, level) ==
    CASE m = 12 /\ level = 0 -> Ok(Shr(va, 39) \cap ToBits(511))
      [] m = 12 /\ level = 1 -> Ok(Shr(va, 30) \cap ToBits(511))
      [] m = 12 /\ level = 2 -> Ok(Shr(va, 21) \cap ToBits(511))
      [] m = 12 /\ level = 3 -> Ok(Shr(va, 12) \cap ToBits(511))
      [] m = 14 /\ level = 0 -> Ok(Shr(va, 47) \cap ToBits(1))
      [] m = 14 /\ level = 1 -> Ok(Shr(va, 36) \cap ToBits(4095))
      [] m = 14 /\ level = 2 -> Ok(Shr(va, 25) \cap ToBits(2047))
      [] m = 14 /\ level = 3 -> Ok(Shr(va, 14) \cap ToBits(2047))
      [] m = 16 /\ level = 1 -> Ok(Shr(va, 42) \cap ToBits(63))
      [] m = 16 /\ level = 2 -> Ok(Shr(va, 29) \cap ToBits(8191))
      [] m = 16 /\ level = 3 -> Ok(Shr(va, 16) \cap ToBits(8191))
      [] OTHER -> Panic

calculate_index(m, va, level) ==
    CASE m = 12 /\ level = 0 -> Ok(Shr(va, 39) \cap ToBits(511))
      [] m = 12 /\ level = 1 -> Ok(Shr(va, 30) \cap ToBits(511))
      [] m = 12 /\ level = 2 -> Ok(Shr(va, 21) \cap ToBits(511))
      [] m = 12 /\ level = 3 -> Ok(Shr(va, 12) \cap ToBits(511))
      [] m = 14 /\ level = 0 -> Ok(Shr(va, 47) \cap ToBits(1))
      [] m = 14 /\ level = 1 -> Ok(Shr(va, 36) \cap ToBits(2047))
      [] m = 14 /\ level = 2 -> Ok(Shr(va, 25) \cap ToBits(2047))
      [] m = 14 /\ level = 3 -> Ok(Shr(va, 14) \cap ToBits(2047))
      [] m = 16 /\ level = 1 -> Ok(Shr(va, 42) \cap ToBits(63))
      [] m = 16 /\ level = 2 -> Ok(Shr(va, 29) \cap ToBits(8191))
      [] m = 16 /\ level = 3 -> Ok(Shr(va, 16) \cap ToBits(8191))
      [] OTHER -> Panic

(***************************************************************************)
(* asm/tlb.rs                                                              *)
(***************************************************************************)
TlbiVA_VA == Field(0, 44)
TlbiVA_TTL == Field(44, 4)
TlbiVA_ASID == Field(48, 16)
TlbiVAA_VA == Field(0, 44)
TlbiASID_ASID == Field(48, 16)

\* the instructions of each operand shape
AllNames == {"ALLE1", "ALLE2", "ALLE3", "ALLE1IS", "ALLE2IS", "ALLE3IS", "VMALLE1", "VMALLE1IS"}
VaNames == {"VAE1", "VAE2", "VAE3", "VAE1IS", "VAE2IS", "VAE3IS"}
AsidNames == {"ASIDE1", "ASIDE1IS"}
VaaNames == {"VAAE1", "VAAE1IS"}

\* va_to_tlbi_va without the shift by the page offset: the raw byte address
va_to_tlbi_va_raw(va) == va \cap MaskLow(44)

va_to_tlbi_va(va) == Shr(va, 12) \cap MaskLow(44)

tlbi_va_new(asid, va) ==
    FvAdd(FieldVal(TlbiVA_VA, va_to_tlbi_va(va)), FieldVal(TlbiVA_ASID, asid)).value

tlbi_asid_new(asid) == FieldVal(TlbiASID_ASID, asid).value

tlbi_vaa_new(va) == FieldVal(TlbiVAA_VA, va_to_tlbi_va(va)).value

(***************************************************************************)
(* cache.rs                                                                *)
(***************************************************************************)
CacheOps == {"Clean", "Invalidate", "CleanAndInvalidate"}

\* an issued instruction; at is the (set, way) of the loop iteration that
\* issued it, <<>> outside the set/way loop
Ev(mnemonic, name, operand, at) == <<mnemonic, name, operand, at>>

dsb(domain) == Ev("dsb", domain, {}, <<>>)

isb(domain) == Ev("isb", domain, {}, <<>>)

ic(name) == Ev("ic", name, {}, <<>>)

dc(name, operand, at) == Ev("dc", name, operand, at)

\* CSSELR_EL1.write(InD::Data + Level.val(level)): InD is bit 0, Level bits [3:1]
csselr_write(level) == Ev("msr", "CSSELR_EL1", Shl(ToBits(level) \cap MaskLow(3), 1, U64), <<>>)

\* entering dcache_level(op, level)
call_dcache_level(level) == Ev("call", "dcache_level", ToBits(level), <<>>)

icache_flush_all == <<ic("IALLU"), dsb("NSH"), isb("SY")>>

\* 4 << CTR_EL0.DminLine
cache_line_size(dminline) == Shl(ToBits(4), dminline, U64)

\* _dcache_line
dcache_line(op, addr) ==
    CASE op = "Clean" -> dc("CVAC", addr, <<>>)
      [] op = "Invalidate" -> dc("IVAC", addr, <<>>)
      [] op = "CleanAndInvalidate" -> dc("CIVAC", addr, <<>>)

\* dcache_range: addr & !(cache_line_size - 1)
range_start(addr, dminline) == addr \cap Not(Sub1(cache_line_size(dminline)))

\* dcache_level: the set/way instruction of op
setway_instr(op, cisw, at) ==
    CASE op = "Invalidate" -> dc("ISW", cisw, at)
      [] op = "Clean" -> dc("CSW", cisw, at)
      [] op = "CleanAndInvalidate" -> dc("CISW", cisw, at)

\* dcache_level: associativity_raw.leading_zeros()
way_shift(geo) == 32 - BitLen(geo.associativity_raw)

\* dcache_level: line_size_raw + 4
set_shift(geo) == geo.line_size_raw + 4

associativity(geo) == geo.associativity_raw + 1

num_sets(geo) == geo.num_sets_raw + 1

\* dcache_level: (way << way_shift) | (set << set_shift) in u32, then
\* (set_way as u64) | (level << 1)
setway_operand(level, geo, set, way, checks) ==
    LET w == u32_shl(ToBits(way), way_shift(geo), checks)
        t == u32_shl(ToBits(set), set_shift(geo), checks)
    IN IF w.panic \/ t.panic THEN Panic
       ELSE Ok((w.val \cup t.val) \cup Shl(ToBits(level), 1, U64))

\* dcache_all: (clidr >> (level * 3)) & 0b111
cache_type(clidr_el1, level) == Shr(clidr_el1, level * 3) \cap ToBits(7)

(***************************************************************************)
(* Inputs of the entry codec: words with at most MaxAddrBits bits set,     *)
(* taken from the positions where the codec's behaviour changes.           *)
(***************************************************************************)
MaxAddrBits == 2
MaxLevel == 4

AddrPositions == {0, 12, 14, 21, 47, 49, 50, 51, 52}
RawPositions == {0, 1, 8, 12, 50}
VaPositions == {11, 12, 20, 21, 25, 36, 39, 42, 47, 48}

WordsOver(positions, n) == {w \in SUBSET positions : Cardinality(w) <= n}

Addrs == WordsOver(AddrPositions, MaxAddrBits)
Raws == WordsOver(RawPositions, MaxAddrBits)
Vas == WordsOver(VaPositions, MaxAddrBits)
Levels == 0..MaxLevel

\* Inputs of the TLB encoder: an ASID and a virtual address are usize
MaxTlbBits == 2

AsidPositions == {0, 15, 16, 63}
TlbVaPositions == {0, 11, 12, 55, 56, 63}

Asids == WordsOver(AsidPositions, MaxTlbBits)
TlbVas == WordsOver(TlbVaPositions, MaxTlbBits)

(***************************************************************************)
(* Inputs of the cache engine: what the geometry registers read as, and    *)
(* the ranges swept.                                                       *)
(***************************************************************************)
MaxAssocRaw == 1
MaxSetsRaw == 1
MaxClidrBits == 2
MaxSizeBits == 3
MaxRangeLines == 12

LineSizeRaws == {0, 7}

\* CCSIDR_EL1 as its three raw fields
Geometries ==
    [associativity_raw : 0..MaxAssocRaw, line_size_raw : LineSizeRaws,
     num_sets_raw : 0..MaxSetsRaw]

SmallGeometries == {geo \in Geometries : geo.line_size_raw = 0 /\ geo.num_sets_raw = 0}

\* CLIDR_EL1: the type fields of levels 0, 1, 2 and 7, and a bit above them
ClidrPositions == {0, 1, 2, 3, 4, 5, 6, 7, 8, 21, 22, 23, 24}

\* every level instruction-cache only
IcacheOnly == {3 * l : l \in 0..7}

ClidrValues ==
    {w \cup f : w \in WordsOver(ClidrPositions, MaxClidrBits), f \in {{}, IcacheOnly}}

\* CTR_EL0.DminLine: lines of 16 and of 64 bytes
DminLines == {2, 4}

\* addresses at the start of memory, in its middle and in its last two lines
RangeBases == {{}, {12}, 7..63}
RangeOffsets == {{}, {0}, {0, 1, 2, 3}, {0, 1, 2, 3, 4, 5}}
RangeAddrs == {base \cup off : base \in RangeBases, off \in RangeOffsets}
RangeSizes == WordsOver({0, 2, 5, 6}, MaxSizeBits)

VARIABLES M, BITS, reg, tteCall, tteRet, ttePanic,
          tlbToken, tlbInstr,
          overflow_checks, cacheCall, pc, dminline, clidr, ccsidr,
          level, set, way, aligned_addr, end, trace

tteVars == <<M, BITS, reg, tteCall, tteRet, ttePanic>>

tlbVars == <<tlbToken, tlbInstr>>

cacheVars ==
    <<overflow_checks, cacheCall, pc, dminline, clidr, ccsidr,
      level, set, way, aligned_addr, end, trace>>

vars ==
    <<M, BITS, reg, tteCall, tteRet, ttePanic, tlbToken, tlbInstr,
      overflow_checks, cacheCall, pc, dminline, clidr, ccsidr,
      level, set, way, aligned_addr, end, trace>>

NoCall == [arg |-> {}, level |-> 0, op |-> "none"]

TTECall(op, arg, lvl) == [arg |-> arg, level |-> lvl, op |-> op]

\* an operand value as its constructor returned it: the instruction it is
\* for, what the caller passed, and the wrapped u64
Token(kind, name, asid, va, operand) ==
    [asid |-> asid, kind |-> kind, name |-> name, operand |-> operand, va |-> va]

NoToken == Token("none", "none", {}, {}, {})

\* an issued instruction: "tlbi NAME" or "tlbi NAME, operand"
Instr(kind, name, operand) == [kind |-> kind, name |-> name, operand |-> operand]

NoInstr == Instr("none", "none", {})

\* the encoder before any operand is built
IdleTLB ==
    /\ tlbToken = NoToken
    /\ tlbInstr = NoInstr

NoGeometry == [associativity_raw |-> 0, line_size_raw |-> 0, num_sets_raw |-> 0]

\* the cache engine before any call, in a build with or without overflow checks
IdleCache ==
    /\ cacheCall = <<"none", "none", {}, {}>>
    /\ pc = "idle"
    /\ dminline = 0
    /\ clidr = {}
    /\ ccsidr = NoGeometry
    /\ level = 0
    /\ set = 0
    /\ way = 0
    /\ aligned_addr = {}
    /\ end = {}
    /\ trace = <<>>

InitTTE ==
    /\ M \in Granules
    /\ BITS \in OAs
    /\ reg = invalid
    /\ tteCall = NoCall
    /\ tteRet = {}
    /\ ttePanic = FALSE
    /\ IdleTLB
    /\ IdleCache
    /\ overflow_checks = FALSE

\* the codec before any entry is built
IdleTTE ==
    /\ M = 12
    /\ BITS = 48
    /\ reg = invalid
    /\ tteCall = NoCall
    /\ tteRet = {}
    /\ ttePanic = FALSE

\* a call that builds or changes the entry: on a panic the caller's entry is
\* left as it was and nothing more runs
Finish(op, arg, lvl, res) ==
    /\ tteCall' = TTECall(op, arg, lvl)
    /\ ttePanic' = res.panic
    /\ reg' = IF res.panic THEN reg ELSE res.val
    /\ tteRet' = {}
    /\ UNCHANGED <<M, BITS>>
    /\ UNCHANGED tlbVars
    /\ UNCHANGED cacheVars

\* a call that reads the entry
Return(op, arg, lvl, res) ==
    /\ tteCall' = TTECall(op, arg, lvl)
    /\ ttePanic' = res.panic
    /\ tteRet' = res.val
    /\ UNCHANGED <<M, BITS, reg>>
    /\ UNCHANGED tlbVars
    /\ UNCHANGED cacheVars

New == ~ttePanic /\ \E raw \in Raws : Finish("new", raw, 0, Ok(TTE64_new(raw)))

NewTable == ~ttePanic /\ \E a \in Addrs : Finish("new_table", a, 0, new_table(M, BITS, a))

NewBlock == ~ttePanic /\ \E a \in Addrs : Finish("new_block", a, 0, new_block(M, BITS, a))

SetAddress ==
    ~ttePanic /\ \E a \in Addrs : Finish("set_address", a, 0, set_address(M, BITS, reg, a))

SetIsValid ==
    /\ ~ttePanic
    /\ \E b \in BOOLEAN :
          Finish("set_is_valid", IF b THEN {0} ELSE {}, 0, Ok(set_is_valid(reg, b)))

Address == ~ttePanic /\ Return("address", {}, 0, Ok(address(M, BITS, reg)))

AddressWithPageLevel ==
    /\ ~ttePanic
    /\ \E lvl \in Levels :
          Return("address_with_page_level", {}, lvl, address_with_page_level(M, BITS, reg, lvl))

CalculateIndex ==
    /\ ~ttePanic
    /\ \E va \in Vas, lvl \in Levels :
          Return("calculate_index", va, lvl, calculate_index(M, va, lvl))

NextTTE ==
    \/ New
    \/ NewTable
    \/ NewBlock
    \/ SetAddress
    \/ SetIsValid
    \/ Address
    \/ AddressWithPageLevel

SpecTTE == InitTTE /\ [][NextTTE]_vars

\* values for set_sw_reserved: in the field, and with a bit above it
SwValues == {ToBits(0), ToBits(17)}

SetShareability ==
    /\ ~ttePanic
    /\ \E s \in Shareability :
          Finish("set_shareability", SHValue(s), 0, Ok(set_shareability(reg, s)))

SetAccess == ~ttePanic /\ Finish("set_access", {}, 0, Ok(set_access(reg)))

ClearAccess == ~ttePanic /\ Finish("clear_access", {}, 0, Ok(clear_access(reg)))

SetContiguous == ~ttePanic /\ Finish("set_contiguous", {}, 0, Ok(set_contiguous(reg)))

SetNotGlobal == ~ttePanic /\ Finish("set_not_global", {}, 0, Ok(set_not_global(reg)))

SetSwReserved ==
    /\ ~ttePanic
    /\ \E v \in SwValues : Finish("set_sw_reserved", v, 0, Ok(set_sw_reserved(reg, v)))

\* addresses for the entries the mutators work on: none, one every granule
\* and width accepts, one above the ADDR field
EntryAddrs == {{}, {47}, {50}}

EntryNewTable ==
    ~ttePanic /\ \E a \in EntryAddrs : Finish("new_table", a, 0, new_table(M, BITS, a))

EntryNewBlock ==
    ~ttePanic /\ \E a \in EntryAddrs : Finish("new_block", a, 0, new_block(M, BITS, a))

EntrySetAddress ==
    ~ttePanic /\ \E a \in EntryAddrs : Finish("set_address", a, 0, set_address(M, BITS, reg, a))

\* every entry the mutators can make of a raw value or a constructed entry
NextEntry ==
    \/ New
    \/ EntryNewTable
    \/ EntryNewBlock
    \/ SetIsValid
    \/ EntrySetAddress
    \/ SetShareability
    \/ SetAccess
    \/ ClearAccess
    \/ SetContiguous
    \/ SetNotGlobal
    \/ SetSwReserved

SpecEntry == InitTTE /\ [][NextEntry]_vars

GetShareability == ~ttePanic /\ Return("shareability", {}, 0, shareability(reg))

AccessPermission == ~ttePanic /\ Return("access_permission", {}, 0, access_permission(reg))

AttrIndex == ~ttePanic /\ Return("attr_index", {}, 0, Ok(attr_index(reg)))

SwReserved == ~ttePanic /\ Return("sw_reserved", {}, 0, Ok(sw_reserved(reg)))

IsAccessed == ~ttePanic /\ Return("is_accessed", {}, 0, Ok(BoolWord(is_accessed(reg))))

IsExecutable == ~ttePanic /\ Return("is_executable", {}, 0, Ok(BoolWord(is_executable(reg))))

IsPrivilegedExecutable ==
    ~ttePanic
        /\ Return("is_privileged_executable", {}, 0, Ok(BoolWord(is_privileged_executable(reg))))

IsContiguous == ~ttePanic /\ Return("is_contiguous", {}, 0, Ok(BoolWord(is_contiguous(reg))))

IsGlobal == ~ttePanic /\ Return("is_global", {}, 0, Ok(BoolWord(is_global(reg))))

IsDirtyWritable ==
    ~ttePanic /\ Return("is_dirty_writable", {}, 0, Ok(BoolWord(is_dirty_writable(reg))))

\* the field accessors on an entry made from a raw value
NextAccess ==
    \/ New
    \/ SetShareability
    \/ GetShareability
    \/ AccessPermission
    \/ AttrIndex
    \/ SwReserved
    \/ IsAccessed
    \/ IsExecutable
    \/ IsPrivilegedExecutable
    \/ IsContiguous
    \/ IsGlobal
    \/ IsDirtyWritable

SpecAccess == InitTTE /\ [][NextAccess]_vars

\* calculate_index is an associated function: it reads no entry
NextIndex == CalculateIndex

SpecIndex == InitTTE /\ [][NextIndex]_vars

(***************************************************************************)
(* The TLB encoder: a constructor returns an operand, tlbi() issues the    *)
(* instruction it is for; the caller holds one operand at a time.          *)
(***************************************************************************)
InitTLB == IdleTTE /\ IdleTLB /\ IdleCache /\ overflow_checks = FALSE

\* tlbInstr is what the last step issued: a constructor issues nothing
Built(kind, name, asid, va, operand) ==
    /\ tlbToken' = Token(kind, name, asid, va, operand)
    /\ tlbInstr' = Instr("none", "none", {})
    /\ UNCHANGED tteVars
    /\ UNCHANGED cacheVars

NewAll ==
    /\ tlbToken.kind = "none"
    /\ \E name \in AllNames : Built("all", name, {}, {}, {})

NewVa ==
    /\ tlbToken.kind = "none"
    /\ \E name \in VaNames, asid \in Asids, va \in TlbVas :
          Built("va", name, asid, va, tlbi_va_new(asid, va))

NewAsid ==
    /\ tlbToken.kind = "none"
    /\ \E name \in AsidNames, asid \in Asids :
          Built("asid", name, asid, {}, tlbi_asid_new(asid))

NewVaa ==
    /\ tlbToken.kind = "none"
    /\ \E name \in VaaNames, va \in TlbVas :
          Built("vaa", name, {}, va, tlbi_vaa_new(va))

\* tlbi(val) issues the instruction val is for; val is taken by value
Tlbi ==
    /\ tlbToken.kind # "none"
    /\ tlbInstr' = Instr(tlbToken.kind, tlbToken.name, tlbToken.operand)
    /\ tlbToken' = Token("none", "none", {}, {}, {})
    /\ UNCHANGED tteVars
    /\ UNCHANGED cacheVars

NextTLB ==
    \/ NewAll
    \/ NewVa
    \/ NewAsid
    \/ NewVaa
    \/ Tlbi

SpecTLB == InitTLB /\ [][NextTLB]_vars

(***************************************************************************)
(* The cache engine: one call of icache_flush_all, dcache_range or         *)
(* dcache_all, run statement by statement; trace is what it issued.        *)
(***************************************************************************)
InitCache ==
    /\ IdleTTE
    /\ IdleTLB
    /\ IdleCache
    /\ overflow_checks \in BOOLEAN

Frame == UNCHANGED tteVars /\ UNCHANGED tlbVars /\ UNCHANGED overflow_checks

IcacheFlushAll ==
    /\ pc = "idle"
    /\ cacheCall' = <<"icache_flush_all", "none", {}, {}>>
    /\ trace' = icache_flush_all
    /\ pc' = "done"
    /\ UNCHANGED <<dminline, clidr, ccsidr, level, set, way, aligned_addr, end>>
    /\ Frame

\* dcache_range up to its loop: end = start + size, the line size read from
\* CTR_EL0, the first line address
DcacheRange ==
    /\ pc = "idle"
    /\ \E op \in CacheOps, addr \in RangeAddrs, size \in RangeSizes, d \in DminLines :
        LET e == usize_add(addr, size, overflow_checks)
        IN /\ cacheCall' = <<"dcache_range", op, addr, size>>
           /\ dminline' = d
           /\ end' = e.val
           /\ aligned_addr' = IF e.panic THEN {} ELSE range_start(addr, d)
           /\ pc' = IF e.panic THEN "panicked" ELSE "range_loop"
           /\ UNCHANGED <<clidr, ccsidr, level, set, way, trace>>
           /\ Frame

\* dcache_value: the address and the byte size of a value, handed to
\* dcache_range; a value lies within the address space
DcacheValue ==
    /\ pc = "idle"
    /\ \E op \in CacheOps, ptr \in RangeAddrs, size \in RangeSizes, d \in DminLines :
        LET e == usize_add(ptr, size, overflow_checks)
        IN /\ 64 \notin AddFrom(ptr, size, 0, 0)
           /\ cacheCall' = <<"dcache_value", op, ptr, size>>
           /\ dminline' = d
           /\ end' = e.val
           /\ aligned_addr' = range_start(ptr, d)
           /\ pc' = "range_loop"
           /\ UNCHANGED <<clidr, ccsidr, level, set, way, trace>>
           /\ Frame

\* one iteration of the sweep: the line instruction, then aligned_addr += L
RangeLine ==
    LET next == usize_add(aligned_addr, cache_line_size(dminline), overflow_checks)
    IN /\ pc = "range_loop"
       /\ Lt(aligned_addr, end)
       /\ Len(trace) < MaxRangeLines
       /\ trace' = Append(trace, dcache_line(cacheCall[2], aligned_addr))
       /\ aligned_addr' = IF next.panic THEN aligned_addr ELSE next.val
       /\ pc' = IF next.panic THEN "panicked" ELSE "range_loop"
       /\ UNCHANGED <<cacheCall, dminline, clidr, ccsidr, level, set, way, end>>
       /\ Frame

\* the end of the sweep with the two barriers in the wrong order
RangeBarriersIsbFirst ==
    /\ pc = "range_loop"
    /\ ~Lt(aligned_addr, end)
    /\ trace' = trace \o <<isb("SY"), dsb("SY")>>
    /\ pc' = "done"
    /\ UNCHANGED <<cacheCall, dminline, clidr, ccsidr, level, set, way, aligned_addr, end>>
    /\ Frame

\* the sweep is over: dsb(SY); isb(SY)
RangeBarriers ==
    /\ pc = "range_loop"
    /\ ~Lt(aligned_addr, end)
    /\ trace' = trace \o <<dsb("SY"), isb("SY")>>
    /\ pc' = "done"
    /\ UNCHANGED <<cacheCall, dminline, clidr, ccsidr, level, set, way, aligned_addr, end>>
    /\ Frame

\* dcache_all up to its loop: CLIDR_EL1 is read
DcacheAll ==
    /\ pc = "idle"
    /\ \E op \in CacheOps, c \in ClidrValues :
        /\ cacheCall' = <<"dcache_all", op, {}, {}>>
        /\ clidr' = c
        /\ level' = 0
        /\ pc' = "all_loop"
        /\ UNCHANGED <<dminline, ccsidr, set, way, aligned_addr, end, trace>>
        /\ Frame

\* one iteration of for level in 0..8: the match on the level's type
AllLevel ==
    LET ty == cache_type(clidr, level)
    IN /\ pc = "all_loop"
       /\ level < 8
       /\ \/ /\ ty = ToBits(0)
             /\ pc' = "done"
             /\ UNCHANGED <<level, trace>>
          \/ /\ ty = ToBits(1)
             /\ pc' = "all_loop"
             /\ level' = level + 1
             /\ UNCHANGED trace
          \/ /\ ty \in {ToBits(2), ToBits(3), ToBits(4)}
             /\ pc' = "level_select"
             /\ trace' = Append(trace, call_dcache_level(level))
             /\ UNCHANGED level
          \/ /\ ty \in {ToBits(5), ToBits(6), ToBits(7)}
             /\ pc' = "all_loop"
             /\ level' = level + 1
             /\ UNCHANGED trace
       /\ UNCHANGED <<cacheCall, dminline, clidr, ccsidr, set, way, aligned_addr, end>>
       /\ Frame

\* the levels of clidr that hold a data or unified cache
DataLevels(c) == {l \in 0..7 : cache_type(c, l) \in {ToBits(2), ToBits(3), ToBits(4)}}

\* what CCSIDR_EL1 may read as: any geometry when one level is swept, a
\* one-set geometry when several are
ReadableGeometries ==
    IF Cardinality(DataLevels(clidr)) <= 1 THEN Geometries ELSE SmallGeometries

\* dcache_level up to its loops: the level is asserted, selected between two
\* isb, and the geometry read
LevelSelect ==
    /\ pc = "level_select"
    /\ \E geo \in ReadableGeometries :
        /\ IF level < 8
           THEN /\ trace' = trace \o <<isb("SY"), csselr_write(level), isb("SY")>>
                /\ ccsidr' = geo
                /\ pc' = "level_loop"
           ELSE /\ pc' = "panicked"
                /\ UNCHANGED <<trace, ccsidr>>
        /\ set' = 0
        /\ way' = 0
        /\ UNCHANGED <<cacheCall, dminline, clidr, level, aligned_addr, end>>
        /\ Frame

\* one iteration of the set/way loops; after the last one dcache_level
\* returns into the loop of dcache_all
SetWay ==
    LET cisw == setway_operand(level, ccsidr, set, way, overflow_checks)
        last_way == way + 1 = associativity(ccsidr)
        last_set == set + 1 = num_sets(ccsidr)
    IN /\ pc = "level_loop"
       /\ IF cisw.panic
          THEN /\ pc' = "panicked"
               /\ UNCHANGED <<trace, set, way, level>>
          ELSE /\ trace' = Append(trace, setway_instr(cacheCall[2], cisw.val, <<set, way>>))
               /\ way' = IF last_way THEN 0 ELSE way + 1
               /\ set' = IF last_way THEN set + 1 ELSE set
               /\ pc' = IF last_way /\ last_set THEN "all_loop" ELSE "level_loop"
               /\ level' = IF last_way /\ last_set THEN level + 1 ELSE level
       /\ UNCHANGED <<cacheCall, dminline, clidr, ccsidr, aligned_addr, end>>
       /\ Frame

\* after the loop of dcache_all: dsb(SY); isb(SY)
AllBarriers ==
    /\ pc = "all_loop"
    /\ level = 8
    /\ trace' = trace \o <<dsb("SY"), isb("SY")>>
    /\ pc' = "done"
    /\ UNCHANGED <<cacheCall, dminline, clidr, ccsidr, level, set, way, aligned_addr, end>>
    /\ Frame

NextCache ==
    \/ IcacheFlushAll
    \/ DcacheRange
    \/ DcacheValue
    \/ RangeLine
    \/ RangeBarriers
    \/ DcacheAll
    \/ AllLevel
    \/ LevelSelect
    \/ SetWay
    \/ AllBarriers

SpecCache == InitCache /\ [][NextCache]_vars

(***************************************************************************)
(* Properties of the cache engine                                          *)
(***************************************************************************)
\* the small natural a word holds
ToNat(w) == CHOOSE n \in 0..255 : ToBits(n) = w

\* the positions of trace holding a data cache instruction
DcAt == {i \in 1..Len(trace) : trace[i][1] = "dc"}

\* the positions of trace where dcache_level was entered
CallAt == {i \in 1..Len(trace) : trace[i][1] = "call"}

Returned(fn) == cacheCall[1] = fn /\ pc = "done"

\* C3: every call of dcache_all that returns has issued dsb(SY) then isb(SY)
\* as its last two instructions, after every set/way instruction.
C3_AllEndsWithBarriers ==
    Returned("dcache_all")
        => /\ Len(trace) >= 2
           /\ trace[Len(trace) - 1] = dsb("SY")
           /\ trace[Len(trace)] = isb("SY")

\* C4: every call of dcache_range that returns has issued a line
\* instruction for the line containing address, whatever the size.
C4_AtLeastOneLine ==
    Returned("dcache_range")
        => \E i \in DcAt :
              trace[i][3] = {b \in cacheCall[3] : b >= dminline + 2}

\* the set/way operand as the claim states it: the way above way_shift, the
\* set above set_shift, the level above bit 0
C8_Operand(lvl, geo, s, w) ==
    {b + (32 - BitLen(geo.associativity_raw)) : b \in ToBits(w)}
        \cup {b + geo.line_size_raw + 4 : b \in ToBits(s)}
        \cup {b + 1 : b \in ToBits(lvl)}

\* the set/way instruction the claim pairs with each op
C8_Name(op) ==
    CASE op = "Invalidate" -> "ISW" [] op = "Clean" -> "CSW" [] op = "CleanAndInvalidate" -> "CISW"

\* the last call of dcache_level is over
LevelEnded == cacheCall[1] = "dcache_all" /\ CallAt # {} /\ pc \in {"all_loop", "done", "panicked"}

\* C8: a call of dcache_level(op, level) issues exactly num_sets *
\* associativity set/way instructions of the kind op selects, exactly one
\* for each (set, way), with operand (way << way_shift) | (set << set_shift)
\* | (level << 1), whose bits [3:1] are the level and whose bit 0 and bits
\* above 31 are zero.
C8_EverySetWayOnce ==
    LevelEnded
        => LET c == CHOOSE i \in CallAt : \A j \in CallAt : j <= i
               lvl == ToNat(trace[c][3])
               issued == {i \in DcAt : i > c}
           IN /\ Cardinality(issued) = (ccsidr.num_sets_raw + 1) * (ccsidr.associativity_raw + 1)
              /\ \A s \in 0..ccsidr.num_sets_raw, w \in 0..ccsidr.associativity_raw :
                    /\ Cardinality({i \in issued : trace[i][4] = <<s, w>>}) = 1
                    /\ \A i \in issued :
                          trace[i][4] = <<s, w>>
                            => /\ trace[i][2] = C8_Name(cacheCall[2])
                               /\ trace[i][3] = C8_Operand(lvl, ccsidr, s, w)
              /\ \A i \in issued :
                    /\ Shr(trace[i][3] \cap {1, 2, 3}, 1) = ToBits(lvl)
                    /\ \A b \in trace[i][3] : b >= 1 /\ b <= 31

\* dcache_level has read the geometry of the level it sweeps
GeometryRead == cacheCall[1] = "dcache_all" /\ CallAt # {} /\ pc # "level_select"

\* the bits the way field, the set field and the level field can occupy
C16_WayBits == UNION {{b + way_shift(ccsidr) : b \in ToBits(w)} : w \in 0..ccsidr.associativity_raw}

C16_SetBits == UNION {{b + set_shift(ccsidr) : b \in ToBits(t)} : t \in 0..ccsidr.num_sets_raw}

C16_LevelBits == {1, 2, 3}

\* C16: for every geometry, a direct-mapped level included, the way shift is
\* below 32, neither shift loses an index bit, the way, set and level fields
\* are pairwise disjoint, and distinct (set, way) pairs give distinct
\* operands.
C16_OperandWellFormed ==
    GeometryRead
        => /\ way_shift(ccsidr) < 32
           /\ \A b \in C16_WayBits \cup C16_SetBits : b <= 31
           /\ C16_WayBits \cap C16_SetBits = {}
           /\ C16_WayBits \cap C16_LevelBits = {}
           /\ C16_SetBits \cap C16_LevelBits = {}
           /\ \A t1, t2 \in 0..ccsidr.num_sets_raw, w1, w2 \in 0..ccsidr.associativity_raw :
                 LET lvl == ToNat(trace[CHOOSE i \in CallAt : \A j \in CallAt : j <= i][3])
                     o1 == setway_operand(lvl, ccsidr, t1, w1, overflow_checks)
                     o2 == setway_operand(lvl, ccsidr, t2, w2, overflow_checks)
                 IN /\ ~o1.panic
                    /\ <<t1, w1>> # <<t2, w2>> => o1 # o2

\* the type of level lvl as the claim decodes it: 3 bits per level
C9_Type(lvl) == ToNat({b - 3 * lvl : b \in {x \in clidr : x >= 3 * lvl /\ x <= 3 * lvl + 2}})

\* the levels the claim has dcache_all sweep
C9_Swept == {lvl \in 0..7 : C9_Type(lvl) \in {2, 3, 4} /\ \A k \in 0..lvl : C9_Type(k) # 0}

\* C9: when dcache_all has ended, dcache_level has been called exactly once
\* for each level of type 2, 3 or 4 below the first level of type 0, in
\* ascending order, and for no other level.
C9_LevelsSwept ==
    (cacheCall[1] = "dcache_all" /\ pc \in {"done", "panicked"})
        => /\ {ToNat(trace[i][3]) : i \in CallAt} = C9_Swept
           /\ \A i, j \in CallAt : i < j => ToNat(trace[i][3]) < ToNat(trace[j][3])

(***************************************************************************)
(* Properties of the TLB encoder                                           *)
(***************************************************************************)
\* va[55:12] moved down to [43:0]
PageFrame(va) == {i - 12 : i \in {j \in va : j >= 12 /\ j <= 55}}

\* the low 16 bits of asid moved up to [63:48]
AsidField(asid) == {i + 48 : i \in {j \in asid : j <= 15}}

\* C5: a by-VA operand holds va[55:12] in bits [43:0], the 16-bit ASID in
\* bits [63:48] and zero in bits [47:44]; a VAA operand holds va[55:12] in
\* bits [43:0] and nothing else; a by-ASID operand holds the ASID in bits
\* [63:48] and nothing else.
C5_OperandPacking ==
    /\ tlbToken.kind = "va"
        => tlbToken.operand = PageFrame(tlbToken.va) \cup AsidField(tlbToken.asid)
    /\ tlbToken.kind = "vaa" => tlbToken.operand = PageFrame(tlbToken.va)
    /\ tlbToken.kind = "asid" => tlbToken.operand = AsidField(tlbToken.asid)

\* a by-VA operand with the top bit of each field set: neither disturbs the other
C5_Witness ==
    /\ tlbToken.kind = "va"
    /\ tlbToken.asid = {0, 15}
    /\ tlbToken.va = {12, 55}
    /\ tlbToken.operand = {0, 43, 48, 63}

\* C6: no constructor returns an operand whose ASID or VA field holds less
\* than what the caller passed: the ASID field is the whole asid, the VA
\* field the whole of va >> 12.
C6_NoTruncatedField ==
    /\ tlbToken.kind \in {"va", "asid"} => Shr(tlbToken.operand, 48) = tlbToken.asid
    /\ tlbToken.kind \in {"va", "vaa"}
        => (tlbToken.operand \cap MaskLow(44)) = Shr(tlbToken.va, 12)

(***************************************************************************)
(* Properties of the entry codec                                           *)
(***************************************************************************)
Aligned(a, m) == \A i \in a : i >= m

InRange(a, bits) == \A i \in a : i < bits

Constructors == {"new_table", "new_block"}

\* C1: for every granule and width, every granule-aligned address below
\* 2^width given to new_table or new_block is accepted and read back
\* unchanged by address().
C1_RoundTrip ==
    (tteCall.op \in Constructors /\ Aligned(tteCall.arg, M) /\ InRange(tteCall.arg, BITS))
        => (~ttePanic /\ address(M, BITS, reg) = tteCall.arg)

\* C2: new_table, new_block and set_address reject a misaligned or
\* out-of-range address and leave the entry as it was; an address they accept
\* is held in full by the entry's ADDR field, no bit of it masked away.
C2_RejectOrStoreInFull ==
    [][(tteCall'.op \in Constructors \cup {"set_address"})
        => /\ (~Aligned(tteCall'.arg, M) \/ ~InRange(tteCall'.arg, BITS))
                => (ttePanic' /\ reg' = reg)
           /\ ~ttePanic' => Shl(ReadField(reg', ADDR), 12, U64) = tteCall'.arg]_vars

\* the block levels of each granule and their shifts, as the claim lists them
C7_Shift(m, lvl) ==
    CASE m = 12 -> (CASE lvl = 0 -> 39 [] lvl = 1 -> 30 [] lvl = 2 -> 21 [] OTHER -> 0)
      [] m = 14 -> (CASE lvl = 1 -> 36 [] lvl = 2 -> 25 [] OTHER -> 0)
      [] m = 16 -> (CASE lvl = 1 -> 42 [] lvl = 2 -> 29 [] OTHER -> 0)

\* C7: on the block entry made by new_block(a), address_with_page_level(level)
\* is a with the bits below the level's shift cleared and all bits at or above
\* it kept; on a table entry it is address().
C7_BlockLevelAddress ==
    /\ (tteCall.op = "new_block" /\ ~ttePanic)
        => \A lvl \in Levels :
              C7_Shift(M, lvl) # 0
                => address_with_page_level(M, BITS, reg, lvl)
                     = Ok({i \in tteCall.arg : i >= C7_Shift(M, lvl)})
    /\ (tteCall.op = "new_table" /\ ~ttePanic)
        => \A lvl \in Levels :
              address_with_page_level(M, BITS, reg, lvl) = Ok(address(M, BITS, reg))

\* the index fields of each granule and level as <<position, width>>, as the
\* claim lists them; <<>> where none is defined
C10_Field(m, lvl) ==
    CASE m = 12 /\ lvl \in 0..3 -> <<39 - 9 * lvl, 9>>
      [] m = 14 /\ lvl = 0 -> <<47, 1>>
      [] m = 14 /\ lvl \in 1..3 -> <<47 - 11 * lvl, 11>>
      [] m = 16 /\ lvl = 1 -> <<42, 6>>
      [] m = 16 /\ lvl \in 2..3 -> <<55 - 13 * lvl, 13>>
      [] OTHER -> <<>>

\* C10: calculate_index(va, level) is the field of va at the position and of
\* the width the table gives for the granule and level, so it is below
\* 2^width; for a pair the table does not define it fails.
C10_IndexTable ==
    tteCall.op = "calculate_index"
        => LET f == C10_Field(M, tteCall.level)
           IN IF f = <<>> THEN ttePanic
              ELSE /\ ~ttePanic
                   /\ tteRet = {i - f[1] : i \in {j \in tteCall.arg : j >= f[1] /\ j < f[1] + f[2]}}
                   /\ \A i \in tteRet : i < f[2]

\* a 16K level-1 index whose bit 47 lies above the 11-bit field and is dropped
C10_Witness ==
    /\ tteCall = TTECall("calculate_index", {36, 47}, 1)
    /\ M = 14
    /\ ~ttePanic
    /\ tteRet = {0}

\* C11: in every entry the mutators make of a raw value or a constructed
\* entry, VALID = 0 means is_valid() is false, address() is 0 and is_table()
\* and is_block() are both false; VALID = 1 means exactly one of is_table()
\* and is_block() is true.
C11_ValidityGoverns ==
    /\ 0 \notin reg
        => /\ ~is_valid(reg)
           /\ address(M, BITS, reg) = {}
           /\ ~is_table(reg)
           /\ ~is_block(reg)
    /\ 0 \in reg => (is_table(reg) # is_block(reg))

\* an entry invalidated by set_is_valid(false) that still holds its address,
\* its type and flags set by the other mutators
C11_Witness ==
    /\ tteCall = TTECall("set_is_valid", {}, 0)
    /\ 0 \notin reg
    /\ {1, 9, 10, 11, 47, 52, 55} \subseteq reg
    /\ address(M, BITS, reg) = {}

(***************************************************************************)
(* Properties of the range sweep                                           *)
(***************************************************************************)
\* the line instruction the claim pairs with each op
C12_Name(op) ==
    CASE op = "Clean" -> "CVAC" [] op = "Invalidate" -> "IVAC" [] op = "CleanAndInvalidate" -> "CIVAC"

\* address + size as a number: position 64 is set when it passes 2^64
RangeEnd == AddFrom(cacheCall[3], cacheCall[4], 0, 0)

\* the line size L as a word, and address & ~(L - 1)
LineBytes == {dminline + 2}

FirstLine == {b \in cacheCall[3] : b >= dminline + 2}

\* a call of dcache_range with size > 0 whose range lies in the address space
RangeInSpace == cacheCall[1] = "dcache_range" /\ cacheCall[4] # {} /\ 64 \notin RangeEnd

\* C12: for size > 0 and address + size within the address space,
\* dcache_range issues the line instruction of op exactly once for each
\* L-aligned line overlapping [address, address + size), in ascending order
\* from address & ~(L - 1), and for no other address.
C12_ExactLines ==
    RangeInSpace
        => /\ \A i \in DcAt :
                /\ trace[i][2] = C12_Name(cacheCall[2])
                /\ trace[i][3] \cap MaskLow(dminline + 2) = {}
                /\ ~Lt(trace[i][3], FirstLine)
                /\ Lt(trace[i][3], RangeEnd)
           /\ \A i, j \in DcAt : i < j => Lt(trace[i][3], trace[j][3])
           /\ pc \in {"done", "panicked"}
                => /\ \E i \in DcAt : trace[i][3] = FirstLine
                   /\ \A i \in DcAt :
                         LET next == AddFrom(trace[i][3], LineBytes, 0, 0)
                         IN Lt(next, RangeEnd) => \E j \in DcAt : trace[j][3] = next

\* C15: in a call of dcache_range no computation overflows, whatever the
\* address, the size and the line size: the call never panics, end is
\* address + size, and the sweep address strictly increases from line to
\* line, so that the sweep ends and a call that has ended has issued the
\* trailing barriers.
C15_SweepWithoutOverflow ==
    (cacheCall[1] = "dcache_range")
        => /\ pc # "panicked"
           /\ end = RangeEnd
           /\ \A i, j \in DcAt : i < j => Lt(trace[i][3], trace[j][3])
           /\ pc = "done"
                => /\ Len(trace) >= 2
                   /\ trace[Len(trace) - 1] = <<"dsb", "SY", {}, <<>>>>
                   /\ trace[Len(trace)] = <<"isb", "SY", {}, <<>>>>

\* a call of dcache_range, direct or through dcache_value
RangeCall == cacheCall[1] \in {"dcache_range", "dcache_value"}

\* C13: in every execution of dcache_range and of dcache_value the line
\* instructions come first, then dsb(SY), then isb(SY), and nothing after;
\* a call that returns has issued both barriers.  icache_flush_all issues
\* ic IALLU, then a dsb, then an isb.
C13_BarrierOrder ==
    /\ RangeCall
        => LET n == Cardinality(DcAt)
           IN /\ \A i \in 1..n : trace[i][1] = "dc"
              /\ \/ Len(trace) = n /\ pc # "done"
                 \/ /\ Len(trace) = n + 2
                    /\ trace[n + 1] = <<"dsb", "SY", {}, <<>>>>
                    /\ trace[n + 2] = <<"isb", "SY", {}, <<>>>>
                    /\ pc = "done"
    /\ cacheCall[1] = "icache_flush_all"
        => /\ Len(trace) = 3
           /\ trace[1] = <<"ic", "IALLU", {}, <<>>>>
           /\ trace[2][1] = "dsb"
           /\ trace[3][1] = "isb"

\* dcache_value over a value spanning two lines has returned
C13_Witness ==
    /\ cacheCall[1] = "dcache_value"
    /\ pc = "done"
    /\ Cardinality(DcAt) = 2
    /\ Len(trace) = 4

(***************************************************************************)
(* Properties of the accessors                                             *)
(***************************************************************************)
\* C14: on an entry whose VALID bit is 0, address_with_page_level(level)
\* returns 0 for every level defined for the granule, as address() does.
C14_InvalidReportsZero ==
    (tteCall.op = "address_with_page_level" /\ 0 \notin reg /\ C7_Shift(M, tteCall.level) # 0)
        => (~ttePanic /\ tteRet = {} /\ tteRet = address(M, BITS, reg))

\* the field accessors the claim names
C17_Accessors ==
    {"shareability", "access_permission", "attr_index", "sw_reserved", "is_accessed",
     "is_executable", "is_privileged_executable", "is_contiguous", "is_global",
     "is_dirty_writable"}

\* C17: on an entry made from any raw value every field accessor returns a
\* value without failing, and shareability() after set_shareability(s) is s.
C17_AccessorsTotal ==
    /\ tteCall.op \in C17_Accessors => ~ttePanic
    /\ \A s \in Shareability :
          shareability(set_shareability(reg, s)) = Ok(ShareabilityTag(s))

====
